---- MODULE Spec2Model ----
(***************************************************************************)
(* A model of src/app.py, the resume / job-posting matcher:                *)
(*   detect_ats_platform, get_job_description, clean_text, keyword_score,  *)
(*   compute_score and the script body run_app.                            *)
(*                                                                         *)
(* Texts are sequences of characters.  A character is a one-character      *)
(* string; two symbols stand for what a TLA+ string literal cannot hold    *)
(* conveniently: Cross is the code point U+274C (the cross mark the        *)
(* program prefixes its error strings with) and ZRun is a run of 250       *)
(* letters z, so that texts longer than the 500 characters of the block    *)
(* filter stay short sequences.  The letter z occurs in page and resume    *)
(* texts only inside ZRun.                                                 *)
(***************************************************************************)
EXTENDS Integers, Sequences, FiniteSets, TLC

VARIABLES
    pc,               \* position of the script run_app
    uploaded_file,    \* st.file_uploader: NoFile or the text pdfminer extracts
    job_url,          \* st.text_input: the URL typed (possibly empty)
    resume_clean,     \* run_app's local resume_clean
    response,         \* outcome of requests.get inside get_job_description
    jd_text,          \* run_app's local jd_text
    jd_path,          \* which return statement of get_job_description produced jd_text
    platform,         \* run_app's local platform
    score,            \* run_app's local score
    matched_keywords, \* run_app's local matched_keywords
    rendered,         \* the streamlit calls made so far, in order
    calls,            \* the functions of app.py invoked so far, in order
    raised,           \* TRUE when an exception escaped run_app
    args,             \* arguments of a direct call of one function
    ret               \* what that call returned (NoRet before the call)

vars == <<pc, uploaded_file, job_url, resume_clean, response, jd_text, jd_path,
          platform, score, matched_keywords, rendered, calls, raised, args, ret>>

appVars == <<pc, uploaded_file, job_url, resume_clean, response, jd_text, jd_path,
             platform, score, matched_keywords, rendered, calls, raised>>

(***************************************************************************)
(* Characters and strings                                                  *)
(***************************************************************************)
Cross == "U+274C"
ZRun == "z*250"

Uppers == <<"A","B","C","D","E","F","G","H","I","J","K","L","M",
            "N","O","P","Q","R","S","T","U","V","W","X","Y","Z">>
Lowers == <<"a","b","c","d","e","f","g","h","i","j","k","l","m",
            "n","o","p","q","r","s","t","u","v","w","x","y","z">>
Digits == <<"0","1","2","3","4","5","6","7","8","9">>

Range(s) == {s[i] : i \in DOMAIN s}

UpperSet == Range(Uppers)
LowerSet == Range(Lowers) \cup {ZRun}
DigitSet == Range(Digits)

IsUpper(c) == c \in UpperSet
IsLower(c) == c \in LowerSet
IsDigit(c) == c \in DigitSet
IsSpace(c) == c \in {" ", "\n", "\t"}

\* str.lower() on one character
LowerChar(c) == IF IsUpper(c) THEN Lowers[CHOOSE i \in DOMAIN Uppers : Uppers[i] = c] ELSE c

LowerStr(s) == [i \in DOMAIN s |-> LowerChar(s[i])]

\* number of characters a symbol stands for
CharLen(c) == IF c = ZRun THEN 250 ELSE 1

RECURSIVE StrLen(_)
\* len(s)
StrLen(s) == IF s = <<>> THEN 0 ELSE CharLen(Head(s)) + StrLen(Tail(s))

\* code-point order of the characters a token can hold: digits, "_", letters
WordOrder == Digits \o <<"_">> \o Lowers
CharCode(c) == IF c = ZRun THEN Len(WordOrder)
               ELSE CHOOSE i \in DOMAIN WordOrder : WordOrder[i] = c

RECURSIVE StrLess(_, _)
\* a < b on Python strings of word characters
StrLess(a, b) ==
    IF b = <<>> THEN FALSE
    ELSE IF a = <<>> THEN TRUE
    ELSE IF Head(a) = Head(b) THEN StrLess(Tail(a), Tail(b))
    ELSE CharCode(Head(a)) < CharCode(Head(b))

\* sub in s : sub occurs as a contiguous substring of s
Contains(sub, s) ==
    \E i \in 0..(Len(s) - Len(sub)) : SubSeq(s, i + 1, i + Len(sub)) = sub

\* s.startswith(prefix)
StartsWith(s, prefix) ==
    Len(s) >= Len(prefix) /\ SubSeq(s, 1, Len(prefix)) = prefix

\* s.strip(): leading and trailing whitespace removed
Strip(s) ==
    LET keep == {i \in DOMAIN s : ~IsSpace(s[i])}
    IN  IF keep = {} THEN <<>>
        ELSE SubSeq(s, CHOOSE i \in keep : \A j \in keep : i <= j,
                       CHOOSE i \in keep : \A j \in keep : j <= i)

RECURSIVE Join(_, _)
\* sep.join(parts)
Join(parts, sep) ==
    IF parts = <<>> THEN <<>>
    ELSE IF Len(parts) = 1 THEN parts[1]
    ELSE parts[1] \o sep \o Join(Tail(parts), sep)

RECURSIVE SeqsUpTo(_, _)
\* all sequences of at most n members of S
SeqsUpTo(S, n) ==
    IF n = 0 THEN {<<>>}
    ELSE LET shorter == SeqsUpTo(S, n - 1)
         IN  shorter \cup {Append(q, x) : q \in shorter, x \in S}

(***************************************************************************)
(* detect_ats_platform                                                     *)
(***************************************************************************)
\* the dict ats_map, in insertion order (the order the for loop visits it)
ats_map ==
    << [domain |-> <<"g","r","e","e","n","h","o","u","s","e",".","i","o">>,
        name |-> "Greenhouse"],
       [domain |-> <<"m","y","w","o","r","k","d","a","y","j","o","b","s",".","c","o","m">>,
        name |-> "Workday"],
       [domain |-> <<"i","c","i","m","s",".","c","o","m">>,
        name |-> "iCIMS"],
       [domain |-> <<"t","a","l","e","o",".","n","e","t">>,
        name |-> "Taleo"],
       [domain |-> <<"l","e","v","e","r",".","c","o">>,
        name |-> "Lever"],
       [domain |-> <<"s","m","a","r","t","r","e","c","r","u","i","t","e","r","s",".","c","o","m">>,
        name |-> "SmartRecruiters"],
       [domain |-> <<"j","o","b","v","i","t","e",".","c","o","m">>,
        name |-> "Jobvite"],
       [domain |-> <<"a","d","p",".","c","o","m">>,
        name |-> "ADP"],
       [domain |-> <<"s","u","c","c","e","s","s","f","a","c","t","o","r","s",".","c","o","m">>,
        name |-> "SuccessFactors"],
       [domain |-> <<"b","r","a","s","s","r","i","n","g",".","c","o","m">>,
        name |-> "BrassRing"],
       [domain |-> <<"j","a","z","z","h","r",".","c","o","m">>,
        name |-> "JazzHR"],
       [domain |-> <<"b","r","e","e","z","y",".","h","r">>,
        name |-> "BreezyHR"],
       [domain |-> <<"j","o","b","d","i","v","a",".","c","o","m">>,
        name |-> "JobDiva"],
       [domain |-> <<"b","u","l","l","h","o","r","n",".","c","o","m">>,
        name |-> "Bullhorn"],
       [domain |-> <<"b","a","m","b","o","o","h","r",".","c","o","m">>,
        name |-> "BambooHR"] >>

Platforms == {ats_map[i].name : i \in DOMAIN ats_map} \cup {"Unknown"}

RECURSIVE DetectFrom(_, _)
\* the for loop of detect_ats_platform from entry i on
DetectFrom(url, i) ==
    IF i > Len(ats_map) THEN "Unknown"
    ELSE IF Contains(ats_map[i].domain, url) THEN ats_map[i].name
    ELSE DetectFrom(url, i + 1)

RECURSIVE DetectLastFrom(_, _)
\* a loop that keeps the last matching entry instead of returning at the first
DetectLastFrom(url, i) ==
    IF i < 1 THEN "Unknown"
    ELSE IF Contains(ats_map[i].domain, url) THEN ats_map[i].name
    ELSE DetectLastFrom(url, i - 1)

detect_last_match(url) == DetectLastFrom(url, Len(ats_map))

detect_ats_platform(url) == DetectFrom(url, 1)

(***************************************************************************)
(* clean_text                                                              *)
(***************************************************************************)
\* the characters re.sub(r'[^a-zA-Z0-9\s]', '', text) keeps
IsKept(c) == IsUpper(c) \/ IsLower(c) \/ IsDigit(c) \/ IsSpace(c)

clean_text(text) == LowerStr(SelectSeq(text, IsKept))

(***************************************************************************)
(* keyword_score: CountVectorizer(stop_words='english') fitted on          *)
(* [jd_text, resume_text]                                                  *)
(***************************************************************************)
\* \w of the token pattern (?u)\b\w\w+\b
IsWord(c) == IsUpper(c) \/ IsLower(c) \/ IsDigit(c) \/ c = "_"

\* the members of the English stop list that the texts of this model can hold
StopWords == { <<"t","h","e">>, <<"t","o">>, <<"a","n","d">>, <<"a">>, <<"i","s">> }

\* positions where a maximal run of word characters starts
TokenStarts(s) == {i \in DOMAIN s : IsWord(s[i]) /\ (i = 1 \/ ~IsWord(s[i - 1]))}

\* last position of the run that starts at i
TokenEnd(s, i) ==
    CHOOSE j \in i..Len(s) :
        /\ \A k \in i..j : IsWord(s[k])
        /\ (j = Len(s) \/ ~IsWord(s[j + 1]))

\* the analyzer: lowercase, runs of two or more word characters, stop words dropped;
\* the result maps each start position of a kept token to the token
Analyze(doc) ==
    LET s == LowerStr(doc)
        tok(i) == SubSeq(s, i, TokenEnd(s, i))
        kept == {i \in TokenStarts(s) : StrLen(tok(i)) >= 2 /\ tok(i) \notin StopWords}
    IN  [i \in kept |-> tok(i)]

Terms(doc) == Range(Analyze(doc))

\* the entry of the document-term matrix for one term
TermCount(doc, term) ==
    LET a == Analyze(doc) IN Cardinality({i \in DOMAIN a : a[i] = term})

RECURSIVE SortTerms(_)
\* sorted(vocabulary): the feature names in ascending string order
SortTerms(S) ==
    IF S = {} THEN <<>>
    ELSE LET m == CHOOSE x \in S : \A y \in S \ {x} : StrLess(x, y)
         IN  <<m>> \o SortTerms(S \ {m})

\* vectorizer.get_feature_names_out()
FeatureNames(jd_t, resume_t) == SortTerms(Terms(jd_t) \cup Terms(resume_t))

RECURSIVE MatchedFrom(_, _, _, _)
\* the list comprehension of keyword_score from index i on
MatchedFrom(keywords, jd_t, resume_t, i) ==
    IF i > Len(keywords) THEN <<>>
    ELSE (IF TermCount(jd_t, keywords[i]) > 0 /\ TermCount(resume_t, keywords[i]) > 0
          THEN <<keywords[i]>> ELSE <<>>)
         \o MatchedFrom(keywords, jd_t, resume_t, i + 1)

Max(a, b) == IF a >= b THEN a ELSE b

\* a comprehension that tests the job vector alone
keyword_score_jd_only(resume_t, jd_t) ==
    LET keywords == FeatureNames(jd_t, resume_t)
    IN  IF keywords = <<>>
        THEN [raised |-> TRUE, exc |-> "ValueError: empty vocabulary"]
        ELSE [raised |-> FALSE,
              matched |-> SelectSeq(keywords, LAMBDA kw : TermCount(jd_t, kw) > 0),
              num |-> Len(SelectSeq(keywords, LAMBDA kw : TermCount(jd_t, kw) > 0)),
              den |-> Max(Cardinality(Range(keywords)), 1)]

\* keyword_score: fit raises ValueError on an empty vocabulary (before the
\* max(.., 1) of the last line is reached); otherwise (matched, num/den)
keyword_score(resume_t, jd_t) ==
    LET keywords == FeatureNames(jd_t, resume_t)
        matched == MatchedFrom(keywords, jd_t, resume_t, 1)
    IN  IF keywords = <<>>
        THEN [raised |-> TRUE, exc |-> "ValueError: empty vocabulary"]
        ELSE [raised |-> FALSE,
              matched |-> matched,
              num |-> Len(matched),
              den |-> Max(Cardinality(Range(keywords)), 1)]

(***************************************************************************)
(* semantic_score and compute_score                                        *)
(***************************************************************************)
\* semantic_score returns a cosine; the model takes it from the grid
\* -1, .., -1/SimScale, 0, 1/SimScale, .., 1 and carries the numerator
SimScale == 2
Sims == (0 - SimScale)..SimScale

\* (sim_weight, kw_weight) in tenths, a group that leaves Taleo out
WeightsTaleoDefault(p) ==
    IF p \in {"Workday", "SuccessFactors", "ADP"} THEN <<5, 5>>
    ELSE IF p \in {"Lever", "JazzHR", "SmartRecruiters"} THEN <<7, 3>>
    ELSE <<6, 4>>

\* (sim_weight, kw_weight) of compute_score, in tenths
Weights(p) ==
    IF p \in {"Workday", "Taleo", "SuccessFactors", "ADP"} THEN <<5, 5>>
    ELSE IF p \in {"Lever", "JazzHR", "SmartRecruiters"} THEN <<7, 3>>
    ELSE <<6, 4>>

\* round(num / den) for den > 0.  Away from a tie it is the nearest integer; at an
\* exact tie of the rational value the float sum may lie on either side of it,
\* so both neighbours are possible
RoundChoices(num, den) ==
    LET f == num \div den
        r == num - f * den
    IN  IF 2 * r < den THEN {f}
        ELSE IF 2 * r > den THEN {f + 1}
        ELSE {f, f + 1}

\* compute_score with semantic_score's value sim / SimScale: the set of results
\* it can return, (sim * w_sem + kw * w_kw) * 100 being
\* 10 * (sim * w[1] * den + num * w[2] * SimScale) / (SimScale * den)
compute_score(resume_t, jd_t, p, sim) ==
    LET w == Weights(p)
        k == keyword_score(resume_t, jd_t)
    IN  IF k.raised THEN {[raised |-> TRUE, exc |-> k.exc]}
        ELSE {[raised |-> FALSE, score |-> sc, matched |-> k.matched] :
                 sc \in RoundChoices(10 * (sim * w[1] * k.den + k.num * w[2] * SimScale),
                                     SimScale * k.den)}

(***************************************************************************)
(* Direct calls of one function: Init draws the arguments, the action      *)
(* applies the function                                                    *)
(***************************************************************************)
NoRet == [fn |-> "none"]
NoFile == [present |-> FALSE]
NoResponse == [kind |-> "none"]
NoText == <<>>

\* the script is not running
AppIdle ==
    /\ pc = "idle"
    /\ uploaded_file = NoFile
    /\ job_url = <<>>
    /\ resume_clean = NoText
    /\ response = NoResponse
    /\ jd_text = NoText
    /\ jd_path = "none"
    /\ platform = "none"
    /\ score = <<>>
    /\ matched_keywords = <<>>
    /\ rendered = <<>>
    /\ calls = <<>>
    /\ raised = FALSE

MaxParts == 2
MaxWords == 2

\* fragments URLs are assembled from: the mapped domains, neutral parts, and
\* parts that complete or break a domain ("lever.c" + "o", "adp.co" + "m")
UrlPieces ==
    {ats_map[i].domain : i \in DOMAIN ats_map}
    \cup { <<"h","t","t","p","s",":","/","/">>, <<"/","j","o","b","s","/","1">>,
           <<"l","e","v","e","r",".","c">>, <<"o">>, <<"a","d","p",".","c","o">>, <<"m">> }

Urls == {Join(ps, <<>>) : ps \in SeqsUpTo(UrlPieces, MaxParts)}

KeywordLexicon == { <<"t","h","e">>, <<"G","o">>, <<"a","i">>, <<"q">> }
\* cleaned phrases: a plain term, and a term behind a stop word
ScoreLexicon == { <<"a","i">>, <<"t","h","e"," ","g","o">> }

TextsOf(lexicon) == {Join(ws, <<" ">>) : ws \in SeqsUpTo(lexicon, MaxWords)}

InitDetect ==
    /\ AppIdle
    /\ args \in {[url |-> u] : u \in Urls}
    /\ ret = NoRet

CallDetect ==
    /\ ret = NoRet
    /\ "url" \in DOMAIN args
    /\ ret' = [fn |-> "detect_ats_platform", value |-> detect_ats_platform(args.url)]
    /\ UNCHANGED <<appVars, args>>

SpecDetect == InitDetect /\ [][CallDetect]_vars

InitKeyword ==
    /\ AppIdle
    /\ args \in {[resume_text |-> r, jd_text |-> j] :
                    r \in TextsOf(KeywordLexicon), j \in TextsOf(KeywordLexicon)}
    /\ ret = NoRet

CallKeywordScore ==
    /\ ret = NoRet
    /\ "jd_text" \in DOMAIN args
    /\ ret' = [fn |-> "keyword_score", out |-> keyword_score(args.resume_text, args.jd_text)]
    /\ UNCHANGED <<appVars, args>>

SpecKeyword == InitKeyword /\ [][CallKeywordScore]_vars

InitScore ==
    /\ AppIdle
    /\ args \in {[resume_text |-> r, jd_text |-> j, platform |-> p] :
                    r \in TextsOf(ScoreLexicon), j \in TextsOf(ScoreLexicon), p \in Platforms}
    /\ ret = NoRet

CallComputeScore ==
    /\ ret = NoRet
    /\ "platform" \in DOMAIN args
    /\ \E sim \in Sims :
         \E out \in compute_score(args.resume_text, args.jd_text, args.platform, sim) :
            ret' = [fn |-> "compute_score", sim |-> sim, out |-> out]
    /\ UNCHANGED <<appVars, args>>

SpecScore == InitScore /\ [][CallKeywordScore \/ CallComputeScore]_vars

(***************************************************************************)
(* get_job_description                                                     *)
(*                                                                         *)
(* A parsed page is the sequence of its elements in document order; an     *)
(* element has a tag, the value of its class attribute, its id and the     *)
(* text strings below it.  A response is an exception raised by            *)
(* requests.get (kind "exc") or a reply with a status and a page.          *)
(***************************************************************************)
\* the class names a class attribute value lists
ClassTokens(v) ==
    CASE v = "" -> {}
      [] v = "section page-centered" -> {"section", "page-centered"}
      [] v = "content main" -> {"content", "main"}
      [] OTHER -> {v}

\* class_=cls matches one listed class name or the whole attribute value
ClassMatches(attr, cls) == cls \in ClassTokens(attr) \/ attr = cls

\* soup.find(tag, class_=cls): index of the first such element, 0 for None
FindClass(soup, tag, cls) ==
    LET hits == {i \in DOMAIN soup : soup[i].tag = tag /\ ClassMatches(soup[i].class, cls)}
    IN  IF hits = {} THEN 0 ELSE CHOOSE i \in hits : \A j \in hits : i <= j

\* soup.find(tag, id=v)
FindId(soup, tag, v) ==
    LET hits == {i \in DOMAIN soup : soup[i].tag = tag /\ soup[i].id = v}
    IN  IF hits = {} THEN 0 ELSE CHOOSE i \in hits : \A j \in hits : i <= j

\* t.get_text(separator=sep)
GetText(t, sep) == Join(t.strings, sep)

\* the dict mapping of get_job_description: platform -> (tag_name, tag_class)
mapping(p) ==
    CASE p = "Workday" -> <<"div", "css-1yqjbmw">>
      [] p = "iCIMS" -> <<"div", "iCIMS_JobContent">>
      [] p = "Taleo" -> <<"div", "requisitionDescriptionInterface.ID1527.row1">>
      [] p = "Lever" -> <<"div", "section page-centered">>
      [] p = "SmartRecruiters" -> <<"div", "description-section">>
      [] p = "Jobvite" -> <<"div", "job-description">>
      [] p = "ADP" -> <<"div", "jdp-body">>
      [] p = "SuccessFactors" -> <<"div", "jobdescription">>
      [] p = "BrassRing" -> <<"div", "jobdescription">>
      [] p = "JazzHR" -> <<"div", "jobDescription">>
      [] p = "BreezyHR" -> <<"div", "posting-section">>
      [] p = "JobDiva" -> <<"div", "job_description">>
      [] p = "Bullhorn" -> <<"div", "bh-job-description">>
      [] p = "BambooHR" -> <<"div", "ats-description">>
      [] OTHER -> <<"", "">>

\* the platform name as it is formatted into a message
PlatformChars(p) ==
    CASE p = "Greenhouse" -> <<"G","r","e","e","n","h","o","u","s","e">>
      [] p = "Workday" -> <<"W","o","r","k","d","a","y">>
      [] p = "iCIMS" -> <<"i","C","I","M","S">>
      [] p = "Taleo" -> <<"T","a","l","e","o">>
      [] p = "Lever" -> <<"L","e","v","e","r">>
      [] p = "SmartRecruiters" -> <<"S","m","a","r","t","R","e","c","r","u","i","t","e","r","s">>
      [] p = "Jobvite" -> <<"J","o","b","v","i","t","e">>
      [] p = "ADP" -> <<"A","D","P">>
      [] p = "SuccessFactors" -> <<"S","u","c","c","e","s","s","F","a","c","t","o","r","s">>
      [] p = "BrassRing" -> <<"B","r","a","s","s","R","i","n","g">>
      [] p = "JazzHR" -> <<"J","a","z","z","H","R">>
      [] p = "BreezyHR" -> <<"B","r","e","e","z","y","H","R">>
      [] p = "JobDiva" -> <<"J","o","b","D","i","v","a">>
      [] p = "Bullhorn" -> <<"B","u","l","l","h","o","r","n">>
      [] p = "BambooHR" -> <<"B","a","m","b","o","o","H","R">>
      [] OTHER -> <<"U","n","k","n","o","w","n">>

\* the three error strings of get_job_description
NoReadableMsg ==
    <<Cross>> \o <<" ","N","o"," ","r","e","a","d","a","b","l","e"," ","j","o","b"," ",
                   "d","e","s","c","r","i","p","t","i","o","n"," ","f","o","u","n","d",".">>

CouldNotFindMsg(p) ==
    <<Cross>> \o <<" ","C","o","u","l","d"," ","n","o","t"," ","f","i","n","d"," ","j","o","b"," ",
                   "d","e","s","c","r","i","p","t","i","o","n"," ","f","o","r"," ">>
              \o PlatformChars(p) \o <<".">>

ErrorFetchingMsg(e) ==
    <<Cross>> \o <<" ","E","r","r","o","r"," ","f","e","t","c","h","i","n","g"," ","j","o","b"," ",
                   "d","e","s","c","r","i","p","t","i","o","n",":"," ">> \o e

\* the list blocks of the Greenhouse branch
Blocks(soup) ==
    LET big == SelectSeq(soup, LAMBDA t : t.tag \in {"div", "section"}
                                          /\ StrLen(GetText(t, <<>>)) > 500)
    IN  [i \in DOMAIN big |-> Strip(GetText(big[i], <<"\n">>))]

\* max(blocks, key=len): the first block of maximal length
MaxByLen(blocks) ==
    blocks[CHOOSE i \in DOMAIN blocks :
              /\ \A j \in DOMAIN blocks : StrLen(blocks[j]) <= StrLen(blocks[i])
              /\ \A j \in 1..(i - 1) : StrLen(blocks[j]) < StrLen(blocks[i])]

\* get_job_description(url) when requests.get ends as resp: the string returned
\* and the return statement that produced it
get_job_description(url, resp) ==
    LET p == detect_ats_platform(url)
        soup == resp.page
    IN  IF resp.kind = "exc"
        THEN [text |-> ErrorFetchingMsg(resp.msg), path |-> "exception"]
        ELSE IF p = "Greenhouse"
        THEN LET tag == FindClass(soup, "div", "content")
             IN  IF tag # 0
                 THEN [text |-> Strip(GetText(soup[tag], <<"\n">>)), path |-> "greenhouse_content"]
                 ELSE IF Blocks(soup) # <<>>
                 THEN [text |-> MaxByLen(Blocks(soup)), path |-> "greenhouse_block"]
                 ELSE [text |-> NoReadableMsg, path |-> "greenhouse_none"]
        ELSE LET tag_name == mapping(p)[1]
                 tag_class == mapping(p)[2]
                 byClass == FindClass(soup, tag_name, tag_class)
                 tag == IF byClass # 0 THEN byClass ELSE FindId(soup, tag_name, tag_class)
             IN  IF tag_name # "" /\ tag_class # "" /\ tag # 0
                 THEN [text |-> Strip(GetText(soup[tag], <<"\n">>)), path |-> "selector"]
                 ELSE [text |-> CouldNotFindMsg(p), path |-> "not_found"]

(***************************************************************************)
(* run_app: one run of the script, step by step                            *)
(***************************************************************************)
MaxElems == 2

Https == <<"h","t","t","p","s",":","/","/">>
JobPath == <<"/","j","o","b","s","/","1">>

\* what the user can have typed into the URL field
AppUrls ==
    { <<>>,
      Https \o ats_map[1].domain \o JobPath,
      Https \o ats_map[3].domain \o JobPath,
      Https \o ats_map[5].domain \o JobPath,
      Https \o <<"e","x","a","m","p","l","e",".","o","r","g">> \o JobPath }

\* what the uploader can hold: nothing, or a PDF with this text
AppFiles ==
    { NoFile,
      [present |-> TRUE, text |-> <<"T","h","e"," ","A","I",","," ","g","o","!">>],
      [present |-> TRUE, text |-> <<"t","h","e">>] }

\* the elements pages are built from
ElementPool ==
    { [tag |-> "div", class |-> "content main", id |-> "",
       strings |-> << <<"G","o",","," ","A","I","!">> >>],
      [tag |-> "div", class |-> "content", id |-> "", strings |-> <<>>],
      [tag |-> "div", class |-> "section page-centered", id |-> "",
       strings |-> << <<" ", Cross, " ", "a","i">> >>],
      [tag |-> "div", class |-> "", id |-> "iCIMS_JobContent",
       strings |-> << <<"t","h","e"," ","a","i">> >>],
      [tag |-> "div", class |-> "body", id |-> "", strings |-> << <<ZRun, ZRun>> >>],
      [tag |-> "section", class |-> "", id |-> "",
       strings |-> << <<ZRun, ZRun>>, <<"a","i">> >>],
      [tag |-> "div", class |-> "", id |-> "main", strings |-> << <<ZRun, ZRun, ZRun>> >>],
      [tag |-> "div", class |-> "", id |-> "",
       strings |-> << <<Cross, " ", ZRun, ZRun, ZRun>> >>],
      [tag |-> "p", class |-> "", id |-> "",
       strings |-> << <<ZRun, ZRun, ZRun, ZRun>> >>] }

Pages == SeqsUpTo(ElementPool, MaxElems)

\* how requests.get(url, timeout=10) can end
Responses ==
    { [kind |-> "exc", msg |-> <<"t","i","m","e","d"," ","o","u","t">>],
      [kind |-> "exc", msg |-> <<"r","e","f","u","s","e","d">>] }
    \cup {[kind |-> "ok", status |-> st, page |-> pg] : st \in {200, 500}, pg \in Pages}

\* the test of line 126 that reads only the uploader
InputsPresentFileOnly(file, url) == file.present

\* if uploaded_file and job_url
InputsPresent(file, url) == file.present /\ url # <<>>

\* a test that compares with one of the error strings
IsErrorTextNoReadable(text) == text = NoReadableMsg

\* jd_text.startswith(the cross mark)
IsErrorText(text) == StartsWith(text, <<Cross>>)

InitApp ==
    /\ pc = "start"
    /\ uploaded_file \in AppFiles
    /\ job_url \in AppUrls
    /\ resume_clean = NoText
    /\ response = NoResponse
    /\ jd_text = NoText
    /\ jd_path = "none"
    /\ platform = "none"
    /\ score = <<>>
    /\ matched_keywords = <<>>
    /\ rendered = <<>>
    /\ calls = <<>>
    /\ raised = FALSE
    /\ args = [fn |-> "run_app"]
    /\ ret = NoRet

\* lines 119-126: the page header, the two widgets, the test of the inputs
Header ==
    /\ pc = "start"
    /\ rendered' = rendered \o <<"title", "instructions">>
    /\ pc' = IF InputsPresent(uploaded_file, job_url) THEN "resume" ELSE "done"
    /\ UNCHANGED <<uploaded_file, job_url, resume_clean, response, jd_text, jd_path,
                   platform, score, matched_keywords, calls, raised, args, ret>>

\* lines 128-129
CleanResume ==
    /\ pc = "resume"
    /\ resume_clean' = clean_text(uploaded_file.text)
    /\ calls' = calls \o <<"extract_text", "clean_text">>
    /\ pc' = "fetch"
    /\ UNCHANGED <<uploaded_file, job_url, response, jd_text, jd_path,
                   platform, score, matched_keywords, rendered, raised, args, ret>>

\* line 131
GetJobDescription ==
    /\ pc = "fetch"
    /\ \E resp \in Responses :
          /\ response' = resp
          /\ jd_text' = get_job_description(job_url, resp).text
          /\ jd_path' = get_job_description(job_url, resp).path
    /\ calls' = calls \o <<"get_job_description", "detect_ats_platform", "requests.get">>
    /\ pc' = "branch"
    /\ UNCHANGED <<uploaded_file, job_url, resume_clean,
                   platform, score, matched_keywords, rendered, raised, args, ret>>

\* lines 132-133
RenderError ==
    /\ pc = "branch"
    /\ IsErrorText(jd_text)
    /\ rendered' = Append(rendered, "error")
    /\ pc' = "done"
    /\ UNCHANGED <<uploaded_file, job_url, resume_clean, response, jd_text, jd_path,
                   platform, score, matched_keywords, calls, raised, args, ret>>

\* lines 135-150; an exception of compute_score leaves the script
Score ==
    /\ pc = "branch"
    /\ ~IsErrorText(jd_text)
    /\ platform' = detect_ats_platform(job_url)
    /\ calls' = calls \o <<"clean_text", "detect_ats_platform", "compute_score",
                           "semantic_score", "keyword_score">>
    /\ \E sim \in Sims :
         \E out \in compute_score(resume_clean, clean_text(jd_text),
                                  detect_ats_platform(job_url), sim) :
            IF out.raised
            THEN /\ raised' = TRUE
                 /\ UNCHANGED <<score, matched_keywords, rendered>>
            ELSE /\ score' = <<out.score>>
                 /\ matched_keywords' = out.matched
                 /\ rendered' = rendered \o <<"score", "platform", "keyword_count", "keywords">>
                                \o (IF out.score < 80 THEN <<"suggestions">> ELSE <<"excellent">>)
                 /\ UNCHANGED raised
    /\ pc' = "done"
    /\ UNCHANGED <<uploaded_file, job_url, resume_clean, response, jd_text, jd_path, args, ret>>

\* the user changes a widget and streamlit runs the script again
Rerun ==
    /\ pc = "done"
    /\ pc' = "start"
    /\ uploaded_file' \in AppFiles
    /\ job_url' \in AppUrls
    /\ resume_clean' = NoText
    /\ response' = NoResponse
    /\ jd_text' = NoText
    /\ jd_path' = "none"
    /\ platform' = "none"
    /\ score' = <<>>
    /\ matched_keywords' = <<>>
    /\ rendered' = <<>>
    /\ calls' = <<>>
    /\ raised' = FALSE
    /\ UNCHANGED <<args, ret>>

Next == Header \/ CleanResume \/ GetJobDescription \/ RenderError \/ Score \/ Rerun

Spec == InitApp /\ [][Next]_vars

(***************************************************************************)
(* Properties                                                              *)
(***************************************************************************)
\* the joint vocabulary of the two texts of a direct call
JointVocabulary == Terms(args.jd_text) \cup Terms(args.resume_text)

\* its terms that occur in both texts
CommonTerms ==
    {t \in JointVocabulary : TermCount(args.jd_text, t) > 0 /\ TermCount(args.resume_text, t) > 0}

\* C1: the score compute_score returns is an integer between 0 and 100, for any
\* cosine in [-1, 1] and any keyword ratio in [0, 1].
C1_ScoreInRange ==
    (ret.fn = "compute_score" /\ ~ret.out.raised) => ret.out.score \in 0..100

\* C2: when requests.get ends in an exception or in a status other than 200, the
\* description returned is error-tagged and the run produces no score.
C2_BadFetchIsError ==
    (response.kind = "exc" \/ (response.kind = "ok" /\ response.status # 200))
        => (StartsWith(jd_text, <<Cross>>) /\ score = <<>>)

\* the platform's own selector finds an element of the page
SpecificHit(p, soup) ==
    IF p = "Greenhouse" THEN FindClass(soup, "div", "content") # 0
    ELSE /\ p # "Unknown"
         /\ (FindClass(soup, mapping(p)[1], mapping(p)[2]) # 0
             \/ FindId(soup, mapping(p)[1], mapping(p)[2]) # 0)

\* C3: for a fetched page on which the platform's selector finds nothing
\* (Greenhouse, Unknown or any other platform), the longest block of more than
\* 500 characters is returned, and a not-found error only if there is none.
C3_FallbackApplied ==
    (response.kind = "ok" /\ ~SpecificHit(detect_ats_platform(job_url), response.page))
        => IF Blocks(response.page) # <<>>
           THEN jd_text = MaxByLen(Blocks(response.page))
           ELSE jd_path \in {"not_found", "greenhouse_none"}

FailurePaths == {"exception", "not_found", "greenhouse_none"}
ScoringCalls == {"compute_score", "semantic_score", "keyword_score"}
ResultItems == {"score", "platform", "keyword_count", "keywords", "suggestions", "excellent"}

\* C4: once get_job_description has taken a failure path, the run never cleans
\* the job text nor calls compute_score, semantic_score or keyword_score, it
\* renders the description as an error, and renders no score, platform or keywords.
C4_FailureHaltsBeforeScoring ==
    jd_path \in FailurePaths =>
        /\ \A i \in DOMAIN calls : calls[i] \notin ScoringCalls
        /\ \A i, j \in DOMAIN calls :
              (calls[i] = "get_job_description" /\ calls[j] = "clean_text") => j < i
        /\ score = <<>> /\ matched_keywords = <<>> /\ platform = "none"
        /\ Range(rendered) \cap ResultItems = {}
        /\ pc \in {"branch", "done"}
        /\ (pc = "done" => rendered = <<"title", "instructions", "error">>)
        /\ ~raised

C4_Witness ==
    /\ pc = "done"
    /\ jd_path = "not_found"
    /\ response.kind = "ok" /\ Blocks(response.page) # <<>>
    /\ rendered = <<"title", "instructions", "error">>

\* C5: with the resume or the URL missing, the run shows the instruction text
\* alone: no result and no error is rendered, no score is produced, no HTTP
\* request is issued and no exception is raised.
C5_MissingInputRecovered ==
    (~uploaded_file.present \/ job_url = <<>>) =>
        /\ pc \in {"start", "done"}
        /\ (pc = "done" => rendered = <<"title", "instructions">>)
        /\ Range(rendered) \subseteq {"title", "instructions"}
        /\ score = <<>> /\ matched_keywords = <<>>
        /\ response = NoResponse
        /\ \A i \in DOMAIN calls : calls[i] \notin {"get_job_description", "requests.get"}
        /\ ~raised

C5_Witness ==
    /\ pc = "done"
    /\ uploaded_file.present /\ job_url = <<>>
    /\ rendered = <<"title", "instructions">>

\* the entries of ats_map whose domain occurs in the URL of a direct call
Hits == {i \in DOMAIN ats_map : Contains(ats_map[i].domain, args.url)}

\* C6: detect_ats_platform returns the name of the first entry of the mapping
\* whose domain occurs in the URL, and "Unknown" exactly when none occurs.
C6_FirstMatchWins ==
    ret.fn = "detect_ats_platform" =>
        /\ (Hits = {}) <=> (ret.value = "Unknown")
        /\ Hits # {} => ret.value = ats_map[CHOOSE i \in Hits : \A j \in Hits : i <= j].name

C6_Witness ==
    /\ ret.fn = "detect_ats_platform"
    /\ Cardinality(Hits) = 2
    /\ Contains(ats_map[5].domain \o ats_map[1].domain, args.url)
    /\ ret.value = "Greenhouse"

\* the weights the claim states, in tenths
ClaimedWeights(p) ==
    CASE p \in {"Workday", "Taleo", "SuccessFactors", "ADP"} -> <<5, 5>>
      [] p \in {"Lever", "JazzHR", "SmartRecruiters"} -> <<7, 3>>
      [] OTHER -> <<6, 4>>

Abs(x) == IF x < 0 THEN 0 - x ELSE x

\* C7: compute_score uses (0.5, 0.5), (0.7, 0.3) or (0.6, 0.4) by platform group,
\* the weights sum to 1, and the score is the rounding of
\* (semantic * w_sem + keyword_ratio * w_kw) * 100.
C7_WeightsAndFormula ==
    (ret.fn = "compute_score" /\ ~ret.out.raised) =>
        LET w == ClaimedWeights(args.platform)
            den == Cardinality(JointVocabulary)
            num == Cardinality(CommonTerms)
            value == 10 * (ret.sim * w[1] * den + num * w[2] * SimScale)
        IN  /\ Weights(args.platform) = w
            /\ w[1] + w[2] = 10
            /\ 2 * Abs(ret.out.score * SimScale * den - value) <= SimScale * den

C7_Witness ==
    /\ ret.fn = "compute_score" /\ ~ret.out.raised
    /\ args.platform = "Taleo"
    /\ ret.sim = SimScale
    /\ Cardinality(CommonTerms) = 1 /\ Cardinality(JointVocabulary) = 2
    /\ ret.out.score = 75

\* C8: keyword_score returns a ratio in [0, 1] without raising; with an empty
\* joint vocabulary it returns ratio 0 and an empty matched list.
C8_KeywordScoreTotal ==
    ret.fn = "keyword_score" =>
        /\ ~ret.out.raised
        /\ 0 <= ret.out.num /\ ret.out.num <= ret.out.den
        /\ JointVocabulary = {} => (ret.out.num = 0 /\ ret.out.matched = <<>>)

\* m lists exactly the common terms, each once, in ascending order
IsCommonTermList(m) ==
    /\ Range(m) = CommonTerms
    /\ Range(m) \subseteq JointVocabulary
    /\ \A i, j \in DOMAIN m : i < j => StrLess(m[i], m[j])

\* C9: with a non-empty joint vocabulary, the matched list of keyword_score holds
\* exactly the vocabulary terms counted in both texts, each once and in
\* alphabetical order, and compute_score returns the same list.
C9_MatchedAreCommonTerms ==
    (ret.fn \in {"keyword_score", "compute_score"} /\ JointVocabulary # {}) =>
        /\ ~ret.out.raised
        /\ IsCommonTermList(ret.out.matched)

C9_Witness ==
    /\ ret.fn = "compute_score"
    /\ ~ret.out.raised
    /\ Len(ret.out.matched) = 2
    /\ args.jd_text # args.resume_text

\* C10: a text taken from a page element is never rendered as an error: the run
\* cleans it and passes it to compute_score.
C10_ElementTextIsScored ==
    (pc = "done" /\ jd_path \in {"selector", "greenhouse_content", "greenhouse_block"})
        => /\ "error" \notin Range(rendered)
           /\ "compute_score" \in Range(calls)

====
